---- MODULE Spec2Model ----
(***************************************************************************)
(* Model of the Viator North America dashboard (app.py) and of the three   *)
(* offline geocoding batch scripts.                                        *)
(*                                                                         *)
(* A table (pandas DataFrame) is a sequence of rows; a row is a function   *)
(* from column names to values, so a table that lacks a column has rows    *)
(* without that field.  A missing string value is NaN; a nullable number   *)
(* is <<>> when missing and <<v>> when present.  Ratings are in tenths.    *)
(***************************************************************************)
EXTENDS Integers, Sequences, FiniteSets, TLC

\* ------------------------------------------------------------------ bounds
MaxRows == 3
\* Rows of a file that lacks a column.
MaxPartialRows == 1
\* Rows of the file the geocoding scripts start from.
MaxGeoRows == 2
\* Rows of a file when every state of the filter widgets is explored.
MaxFilterRows == 2

\* ------------------------------------------------------------ basic values
NaN == "NaN"
Missing == <<>>
Some(v) == <<v>>
IsNa(x) == x = Missing

Required == {"location", "rating_review_count", "title", "rating_score",
             "category", "latitude", "longitude", "country"}

\* Code-point order of the strings that the program orders (group keys,
\* Series.mode, sorted()).
LexOrder == <<"CA", "Museum", "Tour", "US", "Uncategorized", "X", "Y">>
Rank(s) == CHOOSE i \in 1..Len(LexOrder) : LexOrder[i] = s
StrLess(a, b) == Rank(a) < Rank(b)

\* The ascending sequence of a finite set of integers.
RECURSIVE SeqOfIdx(_)
SeqOfIdx(S) ==
    IF S = {} THEN <<>>
    ELSE LET m == CHOOSE x \in S : \A y \in S : x <= y
         IN <<m>> \o SeqOfIdx(S \ {m})

\* DataFrame boolean-mask / positional selection: rows at the positions S,
\* in their original order.
Take(rows, S) == [k \in 1..Cardinality(S) |-> rows[SeqOfIdx(S)[k]]]

\* The row positions of a table.
Idx(rows) == 1..Len(rows)

RECURSIVE SumOver(_, _)
SumOver(f, S) ==
    IF S = {} THEN 0
    ELSE LET x == CHOOSE y \in S : TRUE IN f[x] + SumOver(f, S \ {x})

\* ------------------------------------------------------------ source files
\* Rows a source file may hold (title, location, country, category,
\* rating_score token, rating_review_count, latitude, longitude).
RowPool ==
    { [title |-> "A", location |-> "X", country |-> "US", category |-> "Tour",
       rating_score |-> "0.2", rating_review_count |-> 7,
       latitude |-> Missing, longitude |-> Some(20)],
      [title |-> "B", location |-> "X", country |-> "US", category |-> "Museum",
       rating_score |-> "0.1", rating_review_count |-> 5,
       latitude |-> Some(11), longitude |-> Some(21)],
      [title |-> "C", location |-> "X", country |-> "CA", category |-> "Tour",
       rating_score |-> "bad", rating_review_count |-> 7,
       latitude |-> Some(12), longitude |-> Missing],
      [title |-> "A", location |-> "Y", country |-> NaN, category |-> NaN,
       rating_score |-> "0.1", rating_review_count |-> 5,
       latitude |-> Some(13), longitude |-> Some(23)],
      [title |-> "D", location |-> NaN, country |-> "US", category |-> "Museum",
       rating_score |-> "0.2", rating_review_count |-> 5,
       latitude |-> Some(14), longitude |-> Some(24)] }

SeqsUpTo(S, n) == UNION {[1..k -> S] : k \in 0..n}

\* A row of a file that has only the columns cols.
Project(r, cols) == [c \in cols |-> r[c]]

\* read_csv: the file's columns and its rows, every row over those columns.
\* A file has every required column, or lacks one of them.
FileOf(cs, rs) == [cols |-> cs, rows |-> [k \in 1..Len(rs) |-> Project(rs[k], cs)]]

Sources ==
    {FileOf(Required, rs) : rs \in SeqsUpTo(RowPool, MaxRows)}
        \cup {FileOf(Required \ {c}, rs) :
                    c \in Required, rs \in SeqsUpTo(RowPool, MaxPartialRows)}

VARIABLES
    pc,                     \* position of the script run
    source,                 \* the CSV file read by load_data
    df,                     \* the loaded dataset
    selected_countries, selected_categories,
    review_range, selected_rating_range,
    filtered_df,
    city_metrics,
    sort_column, sort_order,
    sorted_tours,
    popular_cities_grouped,
    category_metrics,
    sunburst_data,
    \* the geocoding batch scripts
    fs,                     \* the CSV files on disk, by name
    status,                 \* how far each script's run has come
    script,                 \* the script that runs, or ran last
    gdf,                    \* its table in memory
    todo,                   \* the row labels its loop iterates over
    pos,                    \* the number of iterations done
    log                     \* what each iteration did, in order

dash_vars == <<pc, source, df, selected_countries, selected_categories,
               review_range, selected_rating_range, filtered_df, city_metrics,
               sort_column, sort_order, sorted_tours, popular_cities_grouped,
               category_metrics, sunburst_data>>

geo_vars == <<fs, status, script, gdf, todo, pos, log>>

vars == <<dash_vars, geo_vars>>

\* ---------------------------------------------------------------- load_data
\* pd.to_numeric(errors="coerce") on the rating tokens of the file, a rating
\* counted in tenths.
ToNumeric(tok) ==
    CASE tok = "0.2" -> Some(2)
      [] tok = "0.1" -> Some(1)
      [] OTHER -> Missing

\* .fillna(0)
FillZero(x) == IF IsNa(x) THEN 0 ELSE x[1]

\* .fillna('Uncategorized').astype(str)
FillCategory(c) == IF c = NaN THEN "Uncategorized" ELSE c

\* Columns after df["city"] = df["location"] and the rename.
LoadedCols(cols) ==
    (cols \ {"rating_review_count", "title"})
        \cup {"city"}
        \cup (IF "rating_review_count" \in cols THEN {"total_reviews"} ELSE {})
        \cup (IF "title" \in cols THEN {"tour_name"} ELSE {})

LoadRow(r) ==
    [c \in LoadedCols(DOMAIN r) |->
        CASE c = "city" -> r["location"]
          [] c = "total_reviews" -> r["rating_review_count"]
          [] c = "tour_name" -> r["title"]
          [] c = "rating_score" -> FillZero(ToNumeric(r["rating_score"]))
          [] c = "category" -> FillCategory(r["category"])
          [] OTHER -> r[c]]

\* drop_duplicates with keep='last'.
DropDuplicatesLast(rows) ==
    Take(rows, {i \in 1..Len(rows) :
                    \A j \in (i + 1)..Len(rows) : rows[j]["tour_name"] # rows[i]["tour_name"]})

\* drop_duplicates(subset=['tour_name'], keep='first')
DropDuplicates(rows) ==
    Take(rows, {i \in 1..Len(rows) :
                    \A j \in 1..(i - 1) : rows[j]["tour_name"] # rows[i]["tour_name"]})

\* The column lookups of load_data that raise KeyError when the column is
\* absent: df["location"], df["rating_score"], df["category"], and the
\* subset of drop_duplicates (tour_name, renamed from title), which
\* drop_duplicates looks up only on a table that has rows.
LoadRaises(src) ==
    \/ {"location", "rating_score", "category"} \ src.cols # {}
    \/ "title" \notin src.cols /\ Len(src.rows) > 0

LoadResult(src) == DropDuplicates([k \in 1..Len(src.rows) |-> LoadRow(src.rows[k])])

LoadData ==
    /\ pc = "start"
    /\ IF LoadRaises(source)
       THEN /\ pc' = "load_error"
            /\ df' = df
       ELSE /\ pc' = "loaded"
            /\ df' = LoadResult(source)
    /\ UNCHANGED <<source, selected_countries, selected_categories,
                   review_range, selected_rating_range, filtered_df,
                   city_metrics, sort_column, sort_order, sorted_tours,
                   popular_cities_grouped, category_metrics, sunburst_data>>
    /\ UNCHANGED geo_vars

\* Columns of a table (all rows share them); the loaded table keeps its
\* columns when it has no rows.
DfCols == LoadedCols(source.cols)

\* ------------------------------------------------------------------ sidebar
ColValues(rows, c) == {rows[k][c] : k \in 1..Len(rows)}
MinOf(S) == CHOOSE x \in S : \A y \in S : x <= y
MaxOf(S) == CHOOSE x \in S : \A y \in S : x >= y

\* Line 71: df["total_reviews"] raises KeyError when the column is absent,
\* and int(df["total_reviews"].min()) raises ValueError on a table without
\* rows (NaN).
ReviewsRaise == "total_reviews" \notin DfCols \/ Len(df) = 0

\* Line 94: df["country"] raises KeyError when the column is absent.
CountryRaises == "country" \notin DfCols

\* The sidebar stops the run on a look-up that raises.
SidebarRaises == ReviewsRaise \/ CountryRaises

\* A slider whose two ends are equal: whether st.slider draws it or raises
\* depends on the Streamlit release that is installed.
EqualEnds(S) == MinOf(S) = MaxOf(S)

\* A range slider returns lo <= hi on its step grid between the slider's
\* ends: whole review counts, and ratings by step=0.1 (one tenth).
SliderRanges(S) ==
    {<<lo, hi>> \in (MinOf(S)..MaxOf(S)) \X (MinOf(S)..MaxOf(S)) : lo <= hi}

\* sort_options and the options of the two selectboxes.
SortOptions == [x \in {"Total Reviews", "Rating Score", "Total Tours"} |->
                    CASE x = "Total Reviews" -> "total_reviews"
                      [] x = "Rating Score" -> "rating_score"
                      [] x = "Total Tours" -> "total_tours"]

SortOrders == {"Descending", "Ascending"}

\* A multiselect returns any subset of its options.
CountryOptions ==
    IF CountryRaises THEN {} ELSE {"All"} \cup (ColValues(df, "country") \ {NaN})
CategoryOptions == {"All"} \cup ColValues(df, "category")

\* Every state the four filter widgets can be in.
WidgetStates ==
    [countries : SUBSET CountryOptions,
     categories : SUBSET CategoryOptions,
     reviews : SliderRanges(ColValues(df, "total_reviews")),
     ratings : SliderRanges(ColValues(df, "rating_score"))]

\* The widgets' defaults: default="All" and the sliders' full range.
DefaultWidgets ==
    [countries |-> {"All"},
     categories |-> {"All"},
     reviews |-> <<MinOf(ColValues(df, "total_reviews")), MaxOf(ColValues(df, "total_reviews"))>>,
     ratings |-> <<MinOf(ColValues(df, "rating_score")), MaxOf(ColValues(df, "rating_score"))>>]

\* The widget states one user interaction away from the defaults (each
\* interaction reruns the script).
OneChange ==
    {[DefaultWidgets EXCEPT !.countries = v] : v \in SUBSET CountryOptions}
        \cup {[DefaultWidgets EXCEPT !.categories = v] : v \in SUBSET CategoryOptions}
        \cup {[DefaultWidgets EXCEPT !.reviews = v] :
                    v \in SliderRanges(ColValues(df, "total_reviews"))}
        \cup {[DefaultWidgets EXCEPT !.ratings = v] :
                    v \in SliderRanges(ColValues(df, "rating_score"))}

\* Section 5 of app.py with the user's selection drawn from W: the widgets
\* are bound one after the other, and a statement that raises ends the run
\* with the widgets before it bound.
SidebarFrom(W) ==
    /\ pc = "loaded"
    /\ IF ReviewsRaise
       THEN /\ pc' = "sidebar_error"
            /\ UNCHANGED <<review_range, selected_rating_range,
                           selected_countries, selected_categories,
                           sort_column, sort_order>>
       ELSE \E w \in W, rejects \in BOOLEAN :
              IF rejects /\ EqualEnds(ColValues(df, "total_reviews"))
              THEN /\ pc' = "sidebar_error"
                   /\ UNCHANGED <<review_range, selected_rating_range,
                                  selected_countries, selected_categories,
                                  sort_column, sort_order>>
              ELSE IF rejects /\ EqualEnds(ColValues(df, "rating_score"))
              THEN /\ pc' = "sidebar_error"
                   /\ review_range' = w.reviews
                   /\ UNCHANGED <<selected_rating_range,
                                  selected_countries, selected_categories,
                                  sort_column, sort_order>>
              ELSE IF CountryRaises
              THEN /\ pc' = "sidebar_error"
                   /\ review_range' = w.reviews
                   /\ selected_rating_range' = w.ratings
                   /\ UNCHANGED <<selected_countries, selected_categories,
                                  sort_column, sort_order>>
              ELSE /\ pc' = "selected"
                   /\ review_range' = w.reviews
                   /\ selected_rating_range' = w.ratings
                   /\ selected_countries' = w.countries
                   /\ selected_categories' = w.categories
                   /\ \E column \in DOMAIN SortOptions, order \in SortOrders :
                        /\ sort_column' = column
                        /\ sort_order' = order
    /\ UNCHANGED <<source, df, filtered_df, city_metrics, sorted_tours,
                   popular_cities_grouped, category_metrics, sunburst_data>>
    /\ UNCHANGED geo_vars

Sidebar == SidebarFrom(OneChange)
SidebarAny == SidebarFrom(WidgetStates)

\* ------------------------------------------------------------ apply filters
\* filtered_df[filtered_df[col].isin(selected)]
IsIn(rows, col, selected) ==
    Take(rows, {i \in 1..Len(rows) : rows[i][col] \in selected})

\* Between with the upper bound taken as exclusive.
BetweenExclusive(rows, col, range) ==
    Take(rows, {i \in 1..Len(rows) :
                    rows[i][col] >= range[1] /\ rows[i][col] < range[2]})

\* filtered_df[(filtered_df[col] >= lo) & (filtered_df[col] <= hi)]
Between(rows, col, range) ==
    Take(rows, {i \in 1..Len(rows) :
                    rows[i][col] >= range[1] /\ rows[i][col] <= range[2]})

FilterCountry(rows, sel) == IF "All" \notin sel THEN IsIn(rows, "country", sel) ELSE rows
FilterCategory(rows, sel) == IF "All" \notin sel THEN IsIn(rows, "category", sel) ELSE rows

FilteredDf(rows, countries, categories, reviews, ratings) ==
    Between(Between(FilterCategory(FilterCountry(rows, countries), categories),
                    "total_reviews", reviews),
            "rating_score", ratings)

ApplyFilters ==
    /\ pc = "selected"
    /\ pc' = "filtered"
    /\ filtered_df' = FilteredDf(df, selected_countries, selected_categories,
                                 review_range, selected_rating_range)
    /\ UNCHANGED <<source, df, selected_countries, selected_categories,
                   review_range, selected_rating_range, city_metrics,
                   sort_column, sort_order, sorted_tours,
                   popular_cities_grouped, category_metrics, sunburst_data>>
    /\ UNCHANGED geo_vars

\* ------------------------------------------------------------ city metrics
\* groupby(cols): the group keys present, rows with a missing key value
\* dropped (dropna=True); a key is the tuple of the row's values at cols.
KeyOf(r, cols) == [k \in 1..Len(cols) |-> r[cols[k]]]
HasKey(r, cols) == \A k \in 1..Len(cols) : r[cols[k]] # NaN
GroupKeys(rows, cols) ==
    {KeyOf(rows[i], cols) : i \in {j \in 1..Len(rows) : HasKey(rows[j], cols)}}
GroupIdx(rows, cols, key) ==
    {i \in 1..Len(rows) : KeyOf(rows[i], cols) = key}

\* Lexicographic order of two keys of the same length.
KeyLess(a, b) ==
    \E k \in 1..Len(a) :
        /\ \A j \in 1..(k - 1) : a[j] = b[j]
        /\ StrLess(a[k], b[k])

\* groupby sorts the result by group key (sort=True).
RECURSIVE SortKeys(_)
SortKeys(S) ==
    IF S = {} THEN <<>>
    ELSE LET m == CHOOSE x \in S : \A y \in S \ {x} : KeyLess(x, y)
         IN <<m>> \o SortKeys(S \ {m})

\* .size()
GroupSize(rows, idx) == Cardinality(idx)
\* "sum"
GroupSum(rows, idx, col) == SumOver([i \in idx |-> rows[i][col]], idx)
\* "mean", kept as the exact fraction sum / count
GroupMean(rows, idx, col) == [num |-> GroupSum(rows, idx, col), den |-> Cardinality(idx)]
\* "count": the non-missing values
GroupCount(rows, idx, col) == Cardinality({i \in idx : rows[i][col] # NaN})

\* "first": the first non-missing value of the column within the group.
GroupFirst(rows, idx, col) ==
    LET present == {i \in idx : ~IsNa(rows[i][col])}
    IN IF present = {} THEN Missing ELSE rows[MinOf(present)][col]

\* Series.mode(): the most frequent values, sorted.
ModeValues(rows, idx, col) ==
    LET count(v) == Cardinality({i \in idx : rows[i][col] = v})
        vals == {rows[i][col] : i \in idx} \ {NaN}
    IN SortKeys({<<v>> : v \in {w \in vals : \A u \in vals : count(u) <= count(w)}})

\* The mode with ties broken by first occurrence in the group.
ModeCategoryFirstSeen(rows, idx) ==
    LET count(v) == Cardinality({i \in idx : rows[i]["category"] = v})
        top == {i \in idx : \A j \in idx : count(rows[j]["category"]) <= count(rows[i]["category"])}
    IN IF idx = {} THEN "Uncategorized" ELSE rows[MinOf(top)]["category"]

\* lambda x: x.mode().iloc[0] if not x.empty else "Uncategorized"
ModeCategory(rows, idx) ==
    IF idx = {} THEN "Uncategorized" ELSE ModeValues(rows, idx, "category")[1][1]

CityKey == <<"city", "country">>

\* filtered_df.groupby(["city", "country"]).size().reset_index(name="total_tours")
TourCounts(rows) ==
    LET keys == SortKeys(GroupKeys(rows, CityKey))
    IN [k \in 1..Len(keys) |->
            [city |-> keys[k][1], country |-> keys[k][2],
             total_tours |-> GroupSize(rows, GroupIdx(rows, CityKey, keys[k]))]]

\* .agg({"total_reviews": "sum", "rating_score": "mean",
\*       "latitude": "first", "longitude": "first"}).reset_index()
CityStats(rows) ==
    LET keys == SortKeys(GroupKeys(rows, CityKey))
    IN [k \in 1..Len(keys) |->
            LET idx == GroupIdx(rows, CityKey, keys[k])
            IN [city |-> keys[k][1], country |-> keys[k][2],
                total_reviews |-> GroupSum(rows, idx, "total_reviews"),
                rating_score |-> GroupMean(rows, idx, "rating_score"),
                latitude |-> GroupFirst(rows, idx, "latitude"),
                longitude |-> GroupFirst(rows, idx, "longitude")]]

\* ["category"].apply(lambda ...).reset_index()
CityCategories(rows) ==
    LET keys == SortKeys(GroupKeys(rows, CityKey))
    IN [k \in 1..Len(keys) |->
            [city |-> keys[k][1], country |-> keys[k][2],
             category |-> ModeCategory(rows, GroupIdx(rows, CityKey, keys[k]))]]

\* pd.merge(left, right, on=on), inner: every left row, in left order, joined
\* with every right row that has the same values at on, in right order.
Matches(l, right, on) ==
    Take(right, {j \in 1..Len(right) : \A c \in on : right[j][c] = l[c]})

RECURSIVE Flatten(_)
Flatten(ss) == IF ss = <<>> THEN <<>> ELSE Head(ss) \o Flatten(Tail(ss))

Merge(left, right, on) ==
    Flatten([k \in 1..Len(left) |->
                LET m == Matches(left[k], right, on)
                IN [j \in 1..Len(m) |-> left[k] @@ m[j]]])

\* The city rollup: the three partial aggregates merged on (city, country);
\* the fillna at the end finds nothing to fill in these columns.
CityMetrics(rows) ==
    Merge(Merge(TourCounts(rows), CityStats(rows), {"city", "country"}),
          CityCategories(rows), {"city", "country"})

\* The try block raising on a table without rows as well.
CityMetricsRaisesOnEmpty(rows) ==
    \/ {"latitude", "longitude"} \ DfCols # {}
    \/ Len(rows) = 0

\* What the try block of section 7 raises: the agg of city_stats on a table
\* without a latitude or longitude column (KeyError), and .iloc[0] on the
\* empty mode of a group whose categories are all missing (IndexError).  The
\* except branch reports the error and stops the run.
CityMetricsRaises(rows) ==
    \/ {"latitude", "longitude"} \ DfCols # {}
    \/ \E key \in GroupKeys(rows, CityKey) :
            \A i \in GroupIdx(rows, CityKey, key) : rows[i]["category"] = NaN

CalcCityMetrics ==
    /\ pc = "filtered"
    /\ IF CityMetricsRaises(filtered_df)
       THEN /\ pc' = "metrics_error"
            /\ city_metrics' = city_metrics
       ELSE /\ pc' = "metrics"
            /\ city_metrics' = CityMetrics(filtered_df)
    /\ UNCHANGED <<source, df, selected_countries, selected_categories,
                   review_range, selected_rating_range, filtered_df,
                   sort_column, sort_order, sorted_tours,
                   popular_cities_grouped, category_metrics, sunburst_data>>
    /\ UNCHANGED geo_vars

\* ----------------------------------------------------------------- rankings
\* sort_values(col, ascending=...) with the default kind="quicksort", which
\* is not stable: the result is some arrangement of the rows in key order,
\* rows with equal keys in any order.
RECURSIVE Arrangements(_, _, _)
Arrangements(key, S, ascending) ==
    IF S = {} THEN {<<>>}
    ELSE LET firsts == {i \in S : \A j \in S :
                            IF ascending THEN key[i] <= key[j] ELSE key[i] >= key[j]}
         IN UNION {{<<i>> \o t : t \in Arrangements(key, S \ {i}, ascending)} :
                        i \in firsts}

SortValues(rows, col, ascending) ==
    {[k \in 1..Len(rows) |-> rows[p[k]]] :
        p \in Arrangements([i \in 1..Len(rows) |-> rows[i][col]], 1..Len(rows), ascending)}

\* table[cols]
Columns(rows, cols) == [k \in 1..Len(rows) |-> Project(rows[k], cols)]

\* pd.merge(left, right, on=on, how="left"): every left row once per match,
\* and once with the right columns rcols missing when nothing matches; the
\* right columns become nullable.
MergeLeft(left, right, on, rcols) ==
    Flatten([k \in 1..Len(left) |->
                LET m == Matches(left[k], right, on)
                IN IF Len(m) = 0
                   THEN <<left[k] @@ [c \in rcols |-> Missing]>>
                   ELSE [j \in 1..Len(m) |-> left[k] @@ [c \in rcols |-> Some(m[j][c])]]])

\* The outcomes of the "Most Popular Tours" table for a sort selection.
SortedTours(rows, metrics, column, order) ==
    LET ascending_bool == (order = "Ascending")
    IN IF column = "Total Tours"
       THEN UNION {SortValues(Merge(rows, Columns(city_ordered, {"city", "total_tours"}), {"city"}),
                              "total_tours", ascending_bool) :
                        city_ordered \in SortValues(metrics, "total_tours", ascending_bool)}
       ELSE {MergeLeft(sorted, Columns(metrics, {"city", "total_tours"}), {"city"}, {"total_tours"}) :
                sorted \in SortValues(rows, SortOptions[column], ascending_bool)}

\* lambda cats: ", ".join(sorted(set(cats))), kept as the sorted sequence of
\* the distinct categories.
JoinedCategories(rows, idx) ==
    LET ks == SortKeys({<<rows[i]["category"]>> : i \in idx})
    IN [k \in 1..Len(ks) |-> ks[k][1]]

\* groupby(["city", "country"], as_index=False).agg(...) with tour_name
\* renamed to total_tours.
CitiesGrouped(rows) ==
    LET keys == SortKeys(GroupKeys(rows, CityKey))
    IN [k \in 1..Len(keys) |->
            LET idx == GroupIdx(rows, CityKey, keys[k])
            IN [city |-> keys[k][1], country |-> keys[k][2],
                total_tours |-> GroupCount(rows, idx, "tour_name"),
                total_reviews |-> GroupSum(rows, idx, "total_reviews"),
                rating_score |-> GroupMean(rows, idx, "rating_score"),
                category |-> JoinedCategories(rows, idx)]]

\* .insert(0, "Position", range(1, len + 1))
WithPosition(rows) == [k \in 1..Len(rows) |-> rows[k] @@ [Position |-> k]]

PopularCitiesGrouped(rows) ==
    {WithPosition(t) : t \in SortValues(CitiesGrouped(rows), "total_reviews", FALSE)}

\* ------------------------------------------------- category and hierarchy
\* filtered_df.groupby("category").agg(...).reset_index().rename(...)
CategoryMetrics(rows) ==
    LET keys == SortKeys(GroupKeys(rows, <<"category">>))
    IN [k \in 1..Len(keys) |->
            LET idx == GroupIdx(rows, <<"category">>, keys[k])
            IN [category |-> keys[k][1],
                total_tours |-> GroupCount(rows, idx, "tour_name"),
                rating_score |-> GroupMean(rows, idx, "rating_score"),
                total_reviews |-> GroupSum(rows, idx, "total_reviews")]]

HierarchyKey == <<"country", "city", "category">>

\* filtered_df.groupby(["country", "city", "category"]).size().reset_index(name="count")
SunburstData(rows) ==
    LET keys == SortKeys(GroupKeys(rows, HierarchyKey))
    IN [k \in 1..Len(keys) |->
            [country |-> keys[k][1], city |-> keys[k][2], category |-> keys[k][3],
             count |-> GroupSize(rows, GroupIdx(rows, HierarchyKey, keys[k]))]]

\* Section 8 of app.py, the tabs: the tour ranking and the city-grouped
\* ranking (tab 2), the category rollup (tab 3) and the hierarchy rollup
\* (tab 4), computed one after the other from filtered_df and city_metrics.
Tabs ==
    /\ pc = "metrics"
    /\ pc' = "done"
    /\ category_metrics' = CategoryMetrics(filtered_df)
    /\ sunburst_data' = SunburstData(filtered_df)
    /\ sorted_tours' \in SortedTours(filtered_df, city_metrics, sort_column, sort_order)
    /\ popular_cities_grouped' \in PopularCitiesGrouped(filtered_df)
    /\ UNCHANGED <<source, df, selected_countries, selected_categories,
                   review_range, selected_rating_range, filtered_df,
                   city_metrics, sort_column, sort_order>>
    /\ UNCHANGED geo_vars

\* ----------------------------------------------------- geocoding scripts
\* geocode_countries.py, forward_geocode_coordinates.py and
\* geocode_countries_filling_gaps.py, each a one-shot batch run.
Scripts == {"reverse", "forward", "gap"}

BaseCsv == "NorthAmericaViatorProducts.csv"
WithCountryCsv == "NorthAmericaViatorProducts_with_country.csv"
WithCoordsCsv == "NorthAmericaViatorProducts_with_country_and_coords.csv"
FullCsv == "NorthAmericaViatorProducts_with_country_and_coords_full.csv"
FileNames == {BaseCsv, WithCountryCsv, WithCoordsCsv, FullCsv}

InputCsv(s) ==
    CASE s = "reverse" -> BaseCsv
      [] s = "forward" -> WithCountryCsv
      [] s = "gap" -> WithCoordsCsv

OutputCsv(s) ==
    CASE s = "reverse" -> WithCountryCsv
      [] s = "forward" -> WithCoordsCsv
      [] s = "gap" -> FullCsv

\* Rows of the base file: a location label (possibly missing or blank) and
\* coordinates (possibly missing).
GeoRowPool ==
    [location : {"X", NaN, " "},
     latitude : {Missing, Some(1)},
     longitude : {Missing, Some(2)}]

BaseFiles == SeqsUpTo(GeoRowPool, MaxGeoRows)

\* df.to_csv(index=False): a missing string is written as the empty field.
ToCsv(rows) ==
    [k \in 1..Len(rows) |->
        [c \in DOMAIN rows[k] |->
            IF c \in {"location", "country"} /\ rows[k][c] = NaN THEN "" ELSE rows[k][c]]]

\* pd.read_csv: the empty field is read as a missing value.
ReadCsv(file) ==
    [k \in 1..Len(file) |->
        [c \in DOMAIN file[k] |->
            IF c \in {"location", "country"} /\ file[k][c] = "" THEN NaN ELSE file[k][c]]]

\* What the rate-limited geolocator.reverse call can do: raise, return
\* nothing, return a location without an address, with an address that has
\* no country, or with an address of a country.
ReverseResults == {"raises", "none", "no_address", "no_country", "United States"}

\* country_name with addr.get("country") lacking its default.
CountryNameNoDefault(result) ==
    CASE result = "raises" -> "Unknown"
      [] result = "none" -> "Unknown"
      [] result = "no_address" -> "Unknown"
      [] result = "no_country" -> NaN
      [] OTHER -> result

\* country_name after the try/except around the reverse lookup.
CountryName(result) ==
    CASE result = "raises" -> "Unknown"
      [] result = "none" -> "Unknown"
      [] result = "no_address" -> "Unknown"
      [] result = "no_country" -> "Unknown"
      [] OTHER -> result

\* What the rate-limited geolocator.geocode call can do: raise, return
\* nothing, or return a location with coordinates.
GeocodeResults ==
    {[kind |-> "raises"], [kind |-> "none"],
     [kind |-> "location", latitude |-> 7, longitude |-> 8]}

\* str.strip() of the location labels.
Strip(str) == IF str = " " THEN "" ELSE str

\* not isinstance(location_str, str) or not location_str.strip()
BlankLocation(loc) == loc = NaN \/ Strip(loc) = ""

\* pd.isna(lat) or pd.isna(lon)
NoCoords(row) == IsNa(row["latitude"]) \/ IsNa(row["longitude"])

NoneRunning == \A s \in Scripts : status[s] # "running"

\* A run that cannot read its input file ends with FileNotFoundError.
Crash(s) ==
    /\ status' = [status EXCEPT ![s] = "crashed"]
    /\ script' = s
    /\ gdf' = <<>>
    /\ todo' = <<>>
    /\ pos' = 0
    /\ log' = <<>>
    /\ UNCHANGED fs

\* main() of geocode_countries.py up to the loop.
ReverseStart ==
    /\ NoneRunning
    /\ status["reverse"] = "not_run"
    /\ IF IsNa(fs[InputCsv("reverse")])
       THEN Crash("reverse")
       ELSE LET table == ReadCsv(fs[InputCsv("reverse")][1])
            IN /\ gdf' = [k \in Idx(table) |-> table[k] @@ [country |-> NaN]]
               /\ todo' = SeqOfIdx(Idx(table))
               /\ status' = [status EXCEPT !["reverse"] = "running"]
               /\ script' = "reverse"
               /\ pos' = 0
               /\ log' = <<>>
               /\ UNCHANGED fs
    /\ UNCHANGED dash_vars

\* One iteration of the loop of geocode_countries.py.
ReverseStep ==
    /\ script = "reverse" /\ status["reverse"] = "running"
    /\ pos < Len(todo)
    /\ LET i == todo[pos + 1]
       IN IF NoCoords(gdf[i])
          THEN /\ gdf' = [gdf EXCEPT ![i]["country"] = "Unknown"]
               /\ log' = Append(log, [row |-> i, result |-> "skipped"])
          ELSE \E result \in ReverseResults :
                /\ gdf' = [gdf EXCEPT ![i]["country"] = CountryName(result)]
                /\ log' = Append(log, [row |-> i, result |-> result])
    /\ pos' = pos + 1
    /\ UNCHANGED <<fs, status, script, todo>>
    /\ UNCHANGED dash_vars

\* The rows df_missing_coords of forward_geocode_coordinates.py.
MissingCoords(table) == {k \in Idx(table) : NoCoords(table[k])}

\* main() of forward_geocode_coordinates.py up to the loop: without a row
\* that misses a coordinate it returns, and nothing is written.
ForwardStart ==
    /\ NoneRunning
    /\ status["forward"] = "not_run"
    /\ IF IsNa(fs[InputCsv("forward")])
       THEN Crash("forward")
       ELSE LET table == ReadCsv(fs[InputCsv("forward")][1])
            IN /\ gdf' = table
               /\ todo' = SeqOfIdx(MissingCoords(table))
               /\ status' = [status EXCEPT !["forward"] =
                                IF MissingCoords(table) = {} THEN "returned" ELSE "running"]
               /\ script' = "forward"
               /\ pos' = 0
               /\ log' = <<>>
               /\ UNCHANGED fs
    /\ UNCHANGED dash_vars

\* One iteration of the loop of forward_geocode_coordinates.py.
ForwardStep ==
    /\ script = "forward" /\ status["forward"] = "running"
    /\ pos < Len(todo)
    /\ LET i == todo[pos + 1]
       IN IF BlankLocation(gdf[i]["location"])
          THEN /\ gdf' = gdf
               /\ log' = Append(log, [row |-> i, result |-> "skipped"])
          ELSE \E result \in GeocodeResults :
                /\ gdf' = IF result.kind = "location"
                          THEN [gdf EXCEPT ![i]["latitude"] = Some(result.latitude),
                                           ![i]["longitude"] = Some(result.longitude)]
                          ELSE gdf
                /\ log' = Append(log, [row |-> i, result |-> result.kind])
    /\ pos' = pos + 1
    /\ UNCHANGED <<fs, status, script, todo>>
    /\ UNCHANGED dash_vars

\* df_missing_country without the test on the country: every row.
AllCountries(table) == Idx(table)

\* The rows df_missing_country of geocode_countries_filling_gaps.py.
UnknownCountry(table) == {k \in Idx(table) : table[k]["country"] = "Unknown"}

\* main() of geocode_countries_filling_gaps.py up to the loop: without a row
\* of country "Unknown" it returns, and nothing is written.
GapStart ==
    /\ NoneRunning
    /\ status["gap"] = "not_run"
    /\ IF IsNa(fs[InputCsv("gap")])
       THEN Crash("gap")
       ELSE LET table == ReadCsv(fs[InputCsv("gap")][1])
            IN /\ gdf' = table
               /\ todo' = SeqOfIdx(UnknownCountry(table))
               /\ status' = [status EXCEPT !["gap"] =
                                IF UnknownCountry(table) = {} THEN "returned" ELSE "running"]
               /\ script' = "gap"
               /\ pos' = 0
               /\ log' = <<>>
               /\ UNCHANGED fs
    /\ UNCHANGED dash_vars

\* One iteration of the loop of geocode_countries_filling_gaps.py.
GapStep ==
    /\ script = "gap" /\ status["gap"] = "running"
    /\ pos < Len(todo)
    /\ LET i == todo[pos + 1]
       IN IF NoCoords(gdf[i])
          THEN /\ gdf' = gdf
               /\ log' = Append(log, [row |-> i, result |-> "skipped"])
          ELSE \E result \in ReverseResults :
                /\ gdf' = [gdf EXCEPT ![i]["country"] = CountryName(result)]
                /\ log' = Append(log, [row |-> i, result |-> result])
    /\ pos' = pos + 1
    /\ UNCHANGED <<fs, status, script, todo>>
    /\ UNCHANGED dash_vars

\* df.to_csv(OUTPUT_CSV, index=False) after the loop of the running script.
WriteOutput ==
    /\ script \in Scripts
    /\ status[script] = "running"
    /\ pos = Len(todo)
    /\ fs' = [fs EXCEPT ![OutputCsv(script)] = Some(ToCsv(gdf))]
    /\ status' = [status EXCEPT ![script] = "written"]
    /\ UNCHANGED <<script, gdf, todo, pos, log>>
    /\ UNCHANGED dash_vars

\* --------------------------------------------------------------------------
DashInit ==
    /\ pc = "start"
    /\ df = <<>>
    /\ selected_countries = {}
    /\ selected_categories = {}
    /\ review_range = <<0, 0>>
    /\ selected_rating_range = <<0, 0>>
    /\ filtered_df = <<>>
    /\ city_metrics = <<>>
    /\ sort_column = "none"
    /\ sort_order = "none"
    /\ sorted_tours = <<>>
    /\ popular_cities_grouped = <<>>
    /\ category_metrics = <<>>
    /\ sunburst_data = <<>>

GeoIdle ==
    /\ status = [s \in Scripts |-> "not_run"]
    /\ script = "none"
    /\ gdf = <<>>
    /\ todo = <<>>
    /\ pos = 0
    /\ log = <<>>

\* The dashboard starts on some source file; no batch script runs.
Init ==
    /\ DashInit
    /\ source \in Sources
    /\ fs = [f \in FileNames |-> Missing]
    /\ GeoIdle

Next ==
    \/ LoadData
    \/ Sidebar
    \/ ApplyFilters
    \/ CalcCityMetrics
    \/ Tabs

Spec == Init /\ [][Next]_vars

\* The loader and the filter engine alone, under every state of the filter
\* widgets, on the shorter source files.
InitFilter ==
    /\ DashInit
    /\ source \in {src \in Sources : Len(src.rows) <= MaxFilterRows}
    /\ fs = [f \in FileNames |-> Missing]
    /\ GeoIdle

NextFilter ==
    \/ LoadData
    \/ SidebarAny
    \/ ApplyFilters

SpecFilter == InitFilter /\ [][NextFilter]_vars

\* The geocoding scripts, run one at a time in any order, each once, from a
\* base file; the dashboard does not run.
GeoInit ==
    /\ DashInit
    /\ source = FileOf(Required, <<>>)
    /\ \E base \in BaseFiles :
            fs = [f \in FileNames |-> IF f = BaseCsv THEN Some(ToCsv(base)) ELSE Missing]
    /\ GeoIdle

GeoNext ==
    \/ ReverseStart
    \/ ReverseStep
    \/ ForwardStart
    \/ ForwardStep
    \/ GapStart
    \/ GapStep
    \/ WriteOutput

SpecGeo == GeoInit /\ [][GeoNext]_vars

\* -------------------------------------------------------------- properties
Filtered == pc \in {"filtered", "metrics", "metrics_error", "done"}
Rolled == pc \in {"metrics", "done"}

\* The rows of filtered_df that belong to the place of the rollup row m.
PlaceRows(m) ==
    {i \in Idx(filtered_df) :
        filtered_df[i]["city"] = m["city"] /\ filtered_df[i]["country"] = m["country"]}
CategoryCount(m, c) ==
    Cardinality({i \in PlaceRows(m) : filtered_df[i]["category"] = c})
TopCategories(m) ==
    {c \in {filtered_df[i]["category"] : i \in PlaceRows(m)} :
        \A i \in PlaceRows(m) : CategoryCount(m, filtered_df[i]["category"]) <= CategoryCount(m, c)}
FirstSeen(m, c) == MinOf({i \in PlaceRows(m) : filtered_df[i]["category"] = c})

\* The predicate of a filter specification on one row, bounds inclusive.
RowPasses(r) ==
    /\ "All" \in selected_countries \/ r["country"] \in selected_countries
    /\ "All" \in selected_categories \/ r["category"] \in selected_categories
    /\ review_range[1] <= r["total_reviews"] /\ r["total_reviews"] <= review_range[2]
    /\ selected_rating_range[1] <= r["rating_score"]
    /\ r["rating_score"] <= selected_rating_range[2]

\* C1: the filtered view is exactly the loaded rows that satisfy every
\* predicate of the filter specification (a selection holding "All" does not
\* restrict its dimension, range bounds are inclusive): no passing row is
\* dropped, no other row is included, none is repeated.
C1_FilterExact ==
    Filtered =>
        /\ \A i \in Idx(df) :
                RowPasses(df[i]) <=> \E j \in Idx(filtered_df) : filtered_df[j] = df[i]
        /\ \A j \in Idx(filtered_df) : \E i \in Idx(df) : df[i] = filtered_df[j]
        /\ \A j, k \in Idx(filtered_df) : filtered_df[j] = filtered_df[k] => j = k

\* A selection of "All" together with another country keeps a row of a
\* country that is not selected, while a range bound cuts other rows and a
\* kept row sits on the bound.
C1_Witness ==
    /\ pc = "filtered"
    /\ "All" \in selected_countries
    /\ selected_countries # {"All"}
    /\ \E j \in Idx(filtered_df) : filtered_df[j]["country"] \notin selected_countries
    /\ 0 < Len(filtered_df) /\ Len(filtered_df) < Len(df)
    /\ \E j \in Idx(filtered_df) : filtered_df[j]["total_reviews"] = review_range[2]
    /\ \E i \in Idx(df) : df[i]["total_reviews"] > review_range[2]

\* C2: the total_tours of the city rollup add up to the number of filtered
\* rows.
C2_TotalToursSum ==
    Rolled =>
        SumOver([k \in Idx(city_metrics) |-> city_metrics[k]["total_tours"]],
                Idx(city_metrics)) = Len(filtered_df)

\* C3 as claimed: the category of a place is a most frequent category of its
\* rows, and among tied categories the one that occurs first in input order.
C3_ModeTieFirstEncountered ==
    Rolled =>
        \A k \in Idx(city_metrics) :
            LET m == city_metrics[k]
            IN /\ m["category"] \in TopCategories(m)
               /\ \A c \in TopCategories(m) : FirstSeen(m, m["category"]) <= FirstSeen(m, c)

\* C3 as amended: the category of a place is a most frequent category of its
\* rows, and among tied categories the one that sorts first.
C3_ModeTieSortsFirst ==
    Rolled =>
        \A k \in Idx(city_metrics) :
            LET m == city_metrics[k]
            IN /\ m["category"] \in TopCategories(m)
               /\ \A c \in TopCategories(m) \ {m["category"]} : StrLess(m["category"], c)

\* A place whose categories tie, the reported one not being the first seen.
C3_Witness ==
    /\ pc = "metrics"
    /\ \E k \in Idx(city_metrics) :
            LET m == city_metrics[k]
            IN /\ Cardinality(TopCategories(m)) >= 2
               /\ \E c \in TopCategories(m) : FirstSeen(m, c) < FirstSeen(m, m["category"])

\* C4: the latitude and the longitude of a place are both those of the first
\* row of the place in input order, missing when that row's value is missing.
C4_CoordsOfFirstRow ==
    Rolled =>
        \A k \in Idx(city_metrics) :
            LET m == city_metrics[k]
                f == filtered_df[MinOf(PlaceRows(m))]
            IN m["latitude"] = f["latitude"] /\ m["longitude"] = f["longitude"]

\* The rollup total_tours of the place of a row, for a row that has a place.
HasPlace(r) ==
    \E k \in Idx(city_metrics) :
        city_metrics[k]["city"] = r["city"] /\ city_metrics[k]["country"] = r["country"]
PlaceTours(r) ==
    LET k == CHOOSE n \in Idx(city_metrics) :
                city_metrics[n]["city"] = r["city"] /\ city_metrics[n]["country"] = r["country"]
    IN city_metrics[k]["total_tours"]
InputPos(r) == CHOOSE i \in Idx(filtered_df) : filtered_df[i]["tour_name"] = r["tour_name"]

\* C5: sorted by total_tours descending, every row of a place with a higher
\* rollup total_tours precedes every row of a place with a lower one, and
\* rows with equal total_tours keep their order of the filtered dataset.
C5_TotalToursDescStable ==
    (pc = "done" /\ sort_column = "Total Tours" /\ sort_order = "Descending") =>
        /\ \A i, j \in Idx(sorted_tours) :
                (/\ HasPlace(sorted_tours[i]) /\ HasPlace(sorted_tours[j])
                 /\ PlaceTours(sorted_tours[i]) > PlaceTours(sorted_tours[j])) => i < j
        /\ \A i, j \in Idx(sorted_tours) :
                (i < j /\ sorted_tours[i]["total_tours"] = sorted_tours[j]["total_tours"])
                    => InputPos(sorted_tours[i]) <= InputPos(sorted_tours[j])

\* C6: after load_data no two rows share a tour_name, and every title of the
\* source is kept with the fields of its first row in source order.
C6_DedupKeepsFirst ==
    pc \notin {"start", "load_error"} =>
        /\ \A i, j \in Idx(df) : df[i]["tour_name"] = df[j]["tour_name"] => i = j
        /\ \A k \in Idx(source.rows) :
                LET first == MinOf({n \in Idx(source.rows) :
                                        source.rows[n]["title"] = source.rows[k]["title"]})
                IN \E i \in Idx(df) :
                        /\ df[i]["tour_name"] = source.rows[k]["title"]
                        /\ \A c \in source.cols \ {"title", "rating_score", "category",
                                                   "rating_review_count"} :
                                df[i][c] = source.rows[first][c]
                        /\ "rating_review_count" \in source.cols =>
                                df[i]["total_reviews"] = source.rows[first]["rating_review_count"]

\* A source with two rows of one title and different locations has been
\* loaded.
C6_Witness ==
    /\ pc = "loaded"
    /\ Len(df) < Len(source.rows)
    /\ \E k, n \in Idx(source.rows) :
            /\ k < n
            /\ source.rows[k]["title"] = source.rows[n]["title"]
            /\ source.rows[k]["location"] # source.rows[n]["location"]

\* C7: a source that lacks a required column fails in the load step, so the
\* run never gets past it.
C7_MissingColumnFailsLoad ==
    source.cols # Required => pc \in {"start", "load_error"}

\* C8: when no row of a loaded dataset matches the filter specification the
\* city-metrics step does not stop the run, and the city rollup, the tour
\* ranking, the city-grouped ranking, the category rollup and the hierarchy
\* rollup are computed and empty.
C8_EmptyResultIsNoError ==
    (source.cols = Required /\ Filtered /\ Len(filtered_df) = 0) =>
        /\ pc # "metrics_error"
        /\ pc = "filtered" => ENABLED CalcCityMetrics
        /\ pc = "metrics" => city_metrics = <<>> /\ ENABLED Tabs
        /\ pc = "done" =>
                /\ city_metrics = <<>>
                /\ sorted_tours = <<>>
                /\ popular_cities_grouped = <<>>
                /\ category_metrics = <<>>
                /\ sunburst_data = <<>>

\* A run over a loaded dataset with rows, none of which matches, has gone
\* through every step.
C8_Witness ==
    /\ pc = "done"
    /\ Len(df) > 0
    /\ Len(filtered_df) = 0
    /\ sorted_tours = <<>>
    /\ city_metrics = <<>>

\* A lookup that failed: it raised, found nothing, or found no country.
FailedLookup(result) == result \in {"raises", "none", "no_address", "no_country"}

\* The table a script read and the table it wrote.
InputTable(s) == ReadCsv(fs[InputCsv(s)][1])
OutputTable(s) == ReadCsv(fs[OutputCsv(s)][1])

\* C9: a failed lookup never aborts a batch: a run stops early only when it
\* cannot read its input, the loop goes on to the next row after every
\* iteration and to the write after the last, and at the write every row of
\* the loop has been visited once, in order, each row whose lookup failed
\* holding the sentinel (country "Unknown", or its coordinates as read).
C9_FailedLookupNeverAborts ==
    script \in Scripts =>
        /\ status[script] = "crashed" => log = <<>> /\ IsNa(fs[InputCsv(script)])
        /\ status[script] \in {"running", "written"} =>
                /\ Len(log) = pos
                /\ \A k \in Idx(log) : log[k].row = todo[k]
        /\ status[script] = "running" =>
                IF pos < Len(todo)
                THEN CASE script = "reverse" -> ENABLED ReverseStep
                       [] script = "forward" -> ENABLED ForwardStep
                       [] script = "gap" -> ENABLED GapStep
                ELSE ENABLED WriteOutput
        /\ status[script] = "written" =>
                /\ pos = Len(todo)
                /\ \A k \in Idx(log) :
                        FailedLookup(log[k].result) =>
                            IF script = "forward"
                            THEN /\ OutputTable(script)[log[k].row]["latitude"]
                                        = InputTable(script)[log[k].row]["latitude"]
                                 /\ OutputTable(script)[log[k].row]["longitude"]
                                        = InputTable(script)[log[k].row]["longitude"]
                            ELSE OutputTable(script)[log[k].row]["country"] = "Unknown"

\* The gap-filler has written its file after a lookup that raised, one that
\* found no country, or one followed by a lookup that succeeded.
C9_Witness ==
    /\ script = "gap"
    /\ status["gap"] = "written"
    /\ status["forward"] = "written"
    /\ \E k, n \in Idx(log) :
            /\ k < n
            /\ log[k].result \in {"raises", "no_country"}
            /\ log[n].result = "United States"

\* C10: a forward-geocoder run that has ended has written its output file,
\* and the file holds every row of its input.
C10_ForwardAlwaysWrites ==
    status["forward"] \in {"written", "returned"} =>
        /\ ~IsNa(fs[WithCoordsCsv])
        /\ Len(fs[WithCoordsCsv][1]) = Len(fs[WithCountryCsv][1])

\* C11: in the file the gap-filler has written, every row whose country in
\* the input file is not "Unknown" is the input row, every row whose country
\* is "Unknown" is the input row in all fields but the country, and a row of
\* country "Unknown" that misses a coordinate still has country "Unknown".
C11_GapOnlyTouchesUnknownCountry ==
    status["gap"] = "written" =>
        /\ Len(OutputTable("gap")) = Len(InputTable("gap"))
        /\ Len(fs[FullCsv][1]) = Len(fs[WithCoordsCsv][1])
        /\ \A i \in Idx(InputTable("gap")) :
                /\ DOMAIN OutputTable("gap")[i] = DOMAIN InputTable("gap")[i]
                /\ InputTable("gap")[i]["country"] # "Unknown" =>
                        /\ OutputTable("gap")[i] = InputTable("gap")[i]
                        /\ fs[FullCsv][1][i] = fs[WithCoordsCsv][1][i]
                /\ \A c \in DOMAIN InputTable("gap")[i] \ {"country"} :
                        /\ OutputTable("gap")[i][c] = InputTable("gap")[i][c]
                        /\ fs[FullCsv][1][i][c] = fs[WithCoordsCsv][1][i][c]
                /\ (InputTable("gap")[i]["country"] = "Unknown" /\ NoCoords(InputTable("gap")[i])) =>
                        OutputTable("gap")[i]["country"] = "Unknown"

\* The gap-filler has written its file from an input with a row of a known
\* country and a row of country "Unknown" whose lookup found a country.
C11_Witness ==
    /\ status["gap"] = "written"
    /\ \E i, j \in Idx(InputTable("gap")) :
            /\ InputTable("gap")[i]["country"] = "United States"
            /\ InputTable("gap")[j]["country"] = "Unknown"
            /\ OutputTable("gap")[j]["country"] = "United States"

\* The gap-filler has written its file from an input with a row of country
\* "Unknown" that misses a coordinate.
C11_WitnessNoCoords ==
    /\ status["gap"] = "written"
    /\ \E i \in Idx(InputTable("gap")) :
            /\ InputTable("gap")[i]["country"] = "Unknown"
            /\ NoCoords(InputTable("gap")[i])

\* C12: whatever the sort key and the direction, sorted_tours holds every
\* row of the filtered dataset exactly once and no other row, and the
\* total_tours of a row is the rollup total_tours of the row's own
\* (city, country) place, also when a city label is under two countries.
C12_RankingIsPermutation ==
    pc = "done" =>
        /\ Len(sorted_tours) = Len(filtered_df)
        /\ \A i \in Idx(filtered_df) :
                Cardinality({k \in Idx(sorted_tours) :
                    sorted_tours[k]["tour_name"] = filtered_df[i]["tour_name"]}) = 1
        /\ \A k \in Idx(sorted_tours) :
                HasPlace(sorted_tours[k]) =>
                    sorted_tours[k]["total_tours"] =
                        IF sort_column = "Total Tours"
                        THEN PlaceTours(sorted_tours[k])
                        ELSE Some(PlaceTours(sorted_tours[k]))

====
